---- MODULE Spec2Model ----
(***************************************************************************)
(* Model of generate_ics.py: the menu-to-calendar pipeline                 *)
(* (generate_calendars and what it calls) and its pure helpers             *)
(* (_escape_ics, _week_starts, parse_menu_day, the event identifier).      *)
(*                                                                         *)
(* Texts are sequences of one-character strings.  Dates are integers: the  *)
(* number of days since 0001-01-01 (Python's date.toordinal() - 1), so     *)
(* that date.weekday() is the date modulo 7 (0 = Monday).                  *)
(***************************************************************************)
EXTENDS Integers, Sequences, FiniteSets, TLC

VARIABLES
    \* ---- _escape_ics ----
    epc, text, escaped, unescaped,
    \* ---- _week_starts ----
    wpc, wstart, wend, current, yielded,
    \* ---- parse_menu_day ----
    ppc, day, result,
    \* ---- the event identifier of build_calendar ----
    upc, uslug, udate, udistrict, uid,
    \* ---- generate_calendars ----
    pc,           \* where generate_calendars is
    start_date, end_date,
    schools,      \* what fetch_schools returned
    si,           \* the position in schools of the school of the loop
    week_start,   \* the next value of the _week_starts generator
    menus,        \* the date -> MenuDay mapping of the school
    files,        \* the calendar files written: slug -> document
    requests,     \* the requests issued so far, in order
    err,          \* the exception that left generate_calendars, if any
    last,         \* history: date -> the last raw day of this school that parsed to it
    bad_day,      \* history: a processed payload held a day with foods and a malformed date
    rewritten     \* history: the dates of this school that parsed again from another day

escVars == <<epc, text, escaped, unescaped>>
weekVars == <<wpc, wstart, wend, current, yielded>>

parseVars == <<ppc, day, result>>

uidVars == <<upc, uslug, udate, udistrict, uid>>

genVars == <<pc, start_date, end_date, schools, si, week_start, menus, files,
             requests, err, last, bad_day, rewritten>>

vars == <<escVars, weekVars, parseVars, uidVars, genVars>>

notEsc == <<weekVars, parseVars, uidVars, genVars>>
notWeek == <<escVars, parseVars, uidVars, genVars>>
notParse == <<escVars, weekVars, uidVars, genVars>>
notUid == <<escVars, weekVars, parseVars, genVars>>
notGen == <<escVars, weekVars, parseVars, uidVars>>

----------------------------------------------------------------------------
(* Bounds *)

\* longest text given to _escape_ics
MaxLen == 3

\* _week_starts is given dates from BaseDate to BaseDate + MaxWeekDay
MaxWeekDay == 15

\* longest menu_items list given to parse_menu_day
MaxItems == 3

\* the identifier is built for dates from BaseDate to BaseDate + MaxUidDay
MaxUidDay == 1

\* generate_calendars is given dates from BaseDate to BaseDate + MaxDay
MaxDay == 7

\* most entries of the school directory
MaxSchools == 2

\* most days of a weekly payload
MaxDays == 2

----------------------------------------------------------------------------
(* Texts *)

BSL == "\\"
SEMI == ";"
COMMA == ","
NL == "\n"

RECURSIVE SeqsUpTo(_, _)
\* all sequences over S of length at most n
SeqsUpTo(S, n) ==
    IF n = 0 THEN {<<>>}
    ELSE LET shorter == SeqsUpTo(S, n - 1)
         IN  shorter \cup {Append(s, x) : s \in {t \in shorter : Len(t) = n - 1}, x \in S}

IsPrefix(p, s) == Len(p) <= Len(s) /\ SubSeq(s, 1, Len(p)) = p

RECURSIVE Replace(_, _, _)
\* str.replace(old, new): the leftmost non-overlapping occurrences of old
Replace(s, old, new) ==
    IF Len(s) < Len(old) THEN s
    ELSE IF IsPrefix(old, s)
         THEN new \o Replace(SubSeq(s, Len(old) + 1, Len(s)), old, new)
         ELSE <<Head(s)>> \o Replace(Tail(s), old, new)

\* _escape_ics with the backslash replaced last instead of first
EscapeIcsBackslashLast(t) ==
    Replace(Replace(Replace(Replace(t,
        <<SEMI>>, <<BSL, SEMI>>),
        <<COMMA>>, <<BSL, COMMA>>),
        <<NL>>, <<BSL, "n">>),
        <<BSL>>, <<BSL, BSL>>)

_escape_ics(t) ==
    Replace(Replace(Replace(Replace(t,
        <<BSL>>, <<BSL, BSL>>),
        <<SEMI>>, <<BSL, SEMI>>),
        <<COMMA>>, <<BSL, COMMA>>),
        <<NL>>, <<BSL, "n">>)

\* the four replacements of _escape_ics undone in the opposite order
UnescapeReverse(t) ==
    Replace(Replace(Replace(Replace(t,
        <<BSL, "n">>, <<NL>>),
        <<BSL, COMMA>>, <<COMMA>>),
        <<BSL, SEMI>>, <<SEMI>>),
        <<BSL, BSL>>, <<BSL>>)

----------------------------------------------------------------------------
(* Dates *)

\* 2024-01-08, a Monday: date(2024, 1, 8).toordinal() - 1
BaseDate == 738892

\* date.weekday(): 0 = Monday
Weekday(d) == d % 7

Digits == <<"0", "1", "2", "3", "4", "5", "6", "7", "8", "9">>

DigitChar(n) == Digits[n + 1]

\* the value of each digit character
DigitOf ==
    ("0" :> 0) @@ ("1" :> 1) @@ ("2" :> 2) @@ ("3" :> 3) @@ ("4" :> 4) @@
    ("5" :> 5) @@ ("6" :> 6) @@ ("7" :> 7) @@ ("8" :> 8) @@ ("9" :> 9)

IsDigit(c) == c \in DOMAIN DigitOf

DigitVal(c) == DigitOf[c]

Pad2(n) == <<DigitChar((n \div 10) % 10), DigitChar(n % 10)>>

Pad4(n) == <<DigitChar((n \div 1000) % 10), DigitChar((n \div 100) % 10)>> \o Pad2(n)

\* year, month and day of a date of the proleptic Gregorian calendar
YMD(d) ==
    LET z == d + 306      \* days since 0000-03-01
        era == z \div 146097
        doe == z % 146097
        yoe == (doe - doe \div 1460 + doe \div 36524 - doe \div 146096) \div 365
        doy == doe - (365 * yoe + yoe \div 4 - yoe \div 100)
        mp == (5 * doy + 2) \div 153
        m == IF mp < 10 THEN mp + 3 ELSE mp - 9
    IN  [y |-> yoe + era * 400 + (IF m <= 2 THEN 1 ELSE 0),
         m |-> m,
         d |-> doy - (153 * mp + 2) \div 5 + 1]

\* the date of a year, month and day
FromYMD(y, m, d) ==
    LET yy == IF m <= 2 THEN y - 1 ELSE y
        era == yy \div 400
        yoe == yy % 400
        doy == (153 * (IF m > 2 THEN m - 3 ELSE m + 9) + 2) \div 5 + d - 1
        doe == yoe * 365 + yoe \div 4 - yoe \div 100 + doy
    IN  era * 146097 + doe - 306

IsLeap(y) == y % 4 = 0 /\ (y % 100 # 0 \/ y % 400 = 0)

DaysInMonth(y, m) ==
    IF m = 2 THEN (IF IsLeap(y) THEN 29 ELSE 28)
    ELSE IF m \in {4, 6, 9, 11} THEN 30 ELSE 31

\* date.isoformat(): YYYY-MM-DD
IsoFormat(d) ==
    LET c == YMD(d) IN Pad4(c.y) \o <<"-">> \o Pad2(c.m) \o <<"-">> \o Pad2(c.d)

\* what date.fromisoformat makes of a text that is no date (a ValueError)
BadDate == -1

\* date.fromisoformat() of a YYYY-MM-DD text
FromIsoFormat(t) ==
    IF /\ Len(t) = 10
       /\ t[5] = "-" /\ t[8] = "-"
       /\ \A i \in {1, 2, 3, 4, 6, 7, 9, 10} : IsDigit(t[i])
    THEN LET y == DigitVal(t[1]) * 1000 + DigitVal(t[2]) * 100
                    + DigitVal(t[3]) * 10 + DigitVal(t[4])
             m == DigitVal(t[6]) * 10 + DigitVal(t[7])
             d == DigitVal(t[9]) * 10 + DigitVal(t[10])
         IN  IF y >= 1 /\ m \in 1..12 /\ d >= 1 /\ d <= DaysInMonth(y, m)
             THEN FromYMD(y, m, d)
             ELSE BadDate
    ELSE BadDate

----------------------------------------------------------------------------
(* parse_menu_day *)

\* the lower-case letter of each upper-case letter
LowerOf ==
    [A |-> "a", B |-> "b", C |-> "c", D |-> "d", E |-> "e", F |-> "f", G |-> "g",
     H |-> "h", I |-> "i", J |-> "j", K |-> "k", L |-> "l", M |-> "m", N |-> "n",
     O |-> "o", P |-> "p", Q |-> "q", R |-> "r", S |-> "s", T |-> "t", U |-> "u",
     V |-> "v", W |-> "w", X |-> "x", Y |-> "y", Z |-> "z"]

\* str.lower()
Lower(t) == [i \in 1..Len(t) |-> IF t[i] \in DOMAIN LowerOf THEN LowerOf[t[i]] ELSE t[i]]

EntreeCategories == {<<"e", "n", "t", "r", "e", "e">>, <<"m", "a", "i", "n">>}

\* A menu item: is_station_header; has_food is whether item.get("food") is
\* truthy; name is food.get("name"), the empty text when it is absent or
\* None; category is item.get("category") or "".
Item(hdr, hasFood, name, category) ==
    [is_station_header |-> hdr, has_food |-> hasFood, name |-> name, category |-> category]

\* the items the loop of parse_menu_day does not skip
Retained(item) == ~item.is_station_header /\ item.has_food /\ item.name # <<>>

IsEntree(item) == Lower(item.category) \in EntreeCategories

RECURSIVE DedupeFrom(_, _)
DedupeFrom(values, seen) ==
    IF values = <<>> THEN <<>>
    ELSE IF Head(values) \in seen
         THEN DedupeFrom(Tail(values), seen)
         ELSE <<Head(values)>> \o DedupeFrom(Tail(values), seen \cup {Head(values)})

\* _dedupe with no seen set: every value is kept
DedupeKeepsAll(values) == values

_dedupe(values) == DedupeFrom(values, {})

RECURSIVE CollectFoods(_)
\* foods after the loop over menu_items
CollectFoods(items) ==
    IF items = <<>> THEN <<>>
    ELSE (IF Retained(Head(items)) THEN <<Head(items).name>> ELSE <<>>)
         \o CollectFoods(Tail(items))

RECURSIVE CollectEntrees(_)
\* entrees after the loop over menu_items
CollectEntrees(items) ==
    IF items = <<>> THEN <<>>
    ELSE (IF Retained(Head(items)) /\ IsEntree(Head(items))
          THEN <<Head(items).name>> ELSE <<>>)
         \o CollectEntrees(Tail(items))

\* A raw day: has_items is whether the day has a menu_items key, has_date
\* whether it has a date key.
RawDay(hasDate, date, hasItems, items) ==
    [has_date |-> hasDate, date |-> date, has_items |-> hasItems, menu_items |-> items]

\* day.get("menu_items") or []
MenuItemsOf(d) == IF d.has_items THEN d.menu_items ELSE <<>>

NoResult == [kind |-> "None", date |-> BadDate, entrees |-> <<>>, foods |-> <<>>]

Raised(exc) == [kind |-> exc, date |-> BadDate, entrees |-> <<>>, foods |-> <<>>]

\* parse_menu_day that drops a day whose date is malformed
ParseMenuDaySkipsBadDate(d) ==
    LET menu_items == MenuItemsOf(d)
        foods == CollectFoods(menu_items)
        entrees == CollectEntrees(menu_items)
    IN  IF menu_items = <<>> THEN NoResult
        ELSE IF foods = <<>> THEN NoResult
        ELSE IF ~d.has_date THEN Raised("KeyError")
        ELSE IF FromIsoFormat(d.date) = BadDate THEN NoResult
        ELSE [kind |-> "MenuDay", date |-> FromIsoFormat(d.date),
              entrees |-> _dedupe(entrees), foods |-> _dedupe(foods)]

\* parse_menu_day that parses the date before it looks at the items
ParseMenuDayDateFirst(d) ==
    LET menu_items == MenuItemsOf(d)
        foods == CollectFoods(menu_items)
        entrees == CollectEntrees(menu_items)
    IN  IF ~d.has_date THEN Raised("KeyError")
        ELSE IF FromIsoFormat(d.date) = BadDate THEN Raised("ValueError")
        ELSE IF menu_items = <<>> THEN NoResult
        ELSE IF foods = <<>> THEN NoResult
        ELSE [kind |-> "MenuDay", date |-> FromIsoFormat(d.date),
              entrees |-> _dedupe(entrees), foods |-> _dedupe(foods)]

\* parse_menu_day: a result of kind "None", "MenuDay", or the exception raised
parse_menu_day(d) ==
    LET menu_items == MenuItemsOf(d)
        foods == CollectFoods(menu_items)
        entrees == CollectEntrees(menu_items)
    IN  IF menu_items = <<>> THEN NoResult
        ELSE IF foods = <<>> THEN NoResult
        ELSE IF ~d.has_date THEN Raised("KeyError")
        ELSE IF FromIsoFormat(d.date) = BadDate THEN Raised("ValueError")
        ELSE [kind |-> "MenuDay", date |-> FromIsoFormat(d.date),
              entrees |-> _dedupe(entrees), foods |-> _dedupe(foods)]

----------------------------------------------------------------------------
(* build_calendar *)

\* the identifier without the date
EventUidNoDate(slug, date, district) == _escape_ics(slug \o <<"-">> \o <<"@">> \o district)

\* the escaped text of f"{school.slug}-{day.date.isoformat()}@{district}"
EventUid(slug, date, district) ==
    _escape_ics(slug \o <<"-">> \o IsoFormat(date) \o <<"@">> \o district)

LunchMenu == <<"L", "u", "n", "c", "h", " ", "M", "e", "n", "u">>

FullMenu == <<"F", "u", "l", "l", " ", "m", "e", "n", "u", ":">>

RECURSIVE JoinLines(_)
\* "\n".join(values)
JoinLines(values) ==
    IF values = <<>> THEN <<>>
    ELSE IF Len(values) = 1 THEN values[1]
    ELSE values[1] \o <<NL>> \o JoinLines(Tail(values))

\* day.date.strftime('%Y%m%d')
DateStamp(d) == LET c == YMD(d) IN Pad4(c.y) \o Pad2(c.m) \o Pad2(c.d)

\* the VEVENT of one MenuDay; DTSTAMP, the same in every event, is left out
Event(slug, md, district) ==
    [uid |-> EventUid(slug, md.date, district),
     dtstart |-> DateStamp(md.date),
     summary |-> _escape_ics(IF md.entrees # <<>> THEN md.entrees[1] ELSE LunchMenu),
     description |-> _escape_ics(FullMenu \o <<NL>> \o JoinLines(md.foods))]

\* the document as the sequence of its events, in the order of menu_days
build_calendar(slug, menu_days, district) ==
    [i \in 1..Len(menu_days) |-> Event(slug, menu_days[i], district)]

----------------------------------------------------------------------------
(* generate_calendars *)

\* fetch_schools keeps the entries with a slug; the name falls back to the slug
School(entry) ==
    [slug |-> entry.slug, name |-> IF entry.name # <<>> THEN entry.name ELSE entry.slug]

RECURSIVE KeepSchools(_)
KeepSchools(data) ==
    IF data = <<>> THEN <<>>
    ELSE (IF Head(data).slug # <<>> THEN <<School(Head(data))>> ELSE <<>>)
         \o KeepSchools(Tail(data))

\* start_date <= d <= end_date without the upper limit
InRangeNoEnd(d, start, end) == start <= d

\* start_date <= menu_day.date <= end_date
InRange(d, start, end) == start <= d /\ d <= end

\* menus[date] = menu_day that keeps the MenuDay the date already has
AssignIfAbsent(m, d, md) ==
    IF d \in DOMAIN m THEN m ELSE [x \in DOMAIN m \cup {d} |-> IF x = d THEN md ELSE m[x]]

\* menus[date] = menu_day
Assign(m, d, md) == [x \in DOMAIN m \cup {d} |-> IF x = d THEN md ELSE m[x]]

\* The days of the weekly payloads of the model
NameX == <<"X">>
NameY == <<"Y">>
CatEntree == <<"e", "n", "t", "r", "e", "e">>
CatEntreeCap == <<"E", "n", "t", "r", "e", "e">>
CatMainUpper == <<"M", "A", "I", "N">>
CatSide == <<"s", "i", "d", "e">>

EntreeX == Item(FALSE, TRUE, <<"X", ";">>, CatEntreeCap)
SideY == Item(FALSE, TRUE, NameY, CatSide)
Header == Item(TRUE, TRUE, NameX, CatEntree)

NotADate == <<"2", "0", "2", "4", "-", "0", "2", "-", "3", "0">>

GenDays ==
    { RawDay(TRUE, IsoFormat(BaseDate + 1), TRUE, <<Header, EntreeX>>),
      RawDay(TRUE, IsoFormat(BaseDate + 1), TRUE, <<SideY>>),
      RawDay(TRUE, IsoFormat(BaseDate + 3), TRUE, <<SideY, EntreeX>>),
      RawDay(TRUE, IsoFormat(BaseDate + 7), TRUE, <<EntreeX>>),
      RawDay(TRUE, NotADate, TRUE, <<SideY>>),
      RawDay(TRUE, NotADate, TRUE, <<Header>>) }

\* parse_menu_day over the days of the model, tabulated
ParsedGenDays == {<<d, parse_menu_day(d)>> : d \in GenDays}

\* menu_day = parse_menu_day(day)
Parsed(d) == (CHOOSE p \in ParsedGenDays : p[1] = d)[2]

MenuDayOf(r) == [date |-> r.date, entrees |-> r.entrees, foods |-> r.foods]

RECURSIVE ProcessDays(_, _, _, _)
\* the loop over payload.get("days", []): the menus it leaves and the
\* exception parse_menu_day raised, if any
ProcessDays(days, m, start, end) ==
    IF days = <<>> THEN [menus |-> m, exc |-> "none"]
    ELSE LET r == Parsed(Head(days))
         IN  IF r.kind = "None" THEN ProcessDays(Tail(days), m, start, end)
             ELSE IF r.kind # "MenuDay" THEN [menus |-> m, exc |-> r.kind]
             ELSE IF InRange(r.date, start, end)
                  THEN ProcessDays(Tail(days), Assign(m, r.date, MenuDayOf(r)), start, end)
                  ELSE ProcessDays(Tail(days), m, start, end)

Min(S) == CHOOSE x \in S : \A y \in S : x <= y

RECURSIVE SortedSeq(_)
\* sorted(menus): the dates in ascending order
SortedSeq(S) ==
    IF S = {} THEN <<>> ELSE <<Min(S)>> \o SortedSeq(S \ {Min(S)})

\* [menus[date] for date in sorted(menus)]
MenuDays(m) == LET ds == SortedSeq(DOMAIN m) IN [i \in 1..Len(ds) |-> m[ds[i]]]

----------------------------------------------------------------------------
(* _escape_ics followed by its reverse *)

WeekIdle == wpc = "idle" /\ wstart = 0 /\ wend = 0 /\ current = 0 /\ yielded = <<>>

ParseIdle == ppc = "idle" /\ day = RawDay(FALSE, <<>>, FALSE, <<>>) /\ result = NoResult

NoError == [kind |-> "none", slug |-> <<>>, week |-> 0]

GenIdle ==
    /\ pc = "idle" /\ start_date = 0 /\ end_date = 0 /\ schools = <<>> /\ si = 0
    /\ week_start = 0 /\ menus = <<>> /\ files = <<>> /\ requests = <<>>
    /\ err = NoError /\ last = <<>> /\ bad_day = FALSE /\ rewritten = {}

UidIdle == upc = "idle" /\ uslug = <<>> /\ udate = 0 /\ udistrict = <<>> /\ uid = <<>>

EscAlphabet == {BSL, SEMI, COMMA, NL, "n", "a"}

EscTexts == SeqsUpTo(EscAlphabet, MaxLen)

EscIdle == epc = "idle" /\ text = <<>> /\ escaped = <<>> /\ unescaped = <<>>

InitEsc == /\ epc = "start"
           /\ text \in EscTexts
           /\ escaped = <<>>
           /\ unescaped = <<>>
           /\ WeekIdle /\ ParseIdle /\ UidIdle /\ GenIdle

Escape == /\ epc = "start"
          /\ escaped' = _escape_ics(text)
          /\ epc' = "escaped"
          /\ UNCHANGED <<text, unescaped>>
          /\ UNCHANGED notEsc

Unescape == /\ epc = "escaped"
            /\ unescaped' = UnescapeReverse(escaped)
            /\ epc' = "unescaped"
            /\ UNCHANGED <<text, escaped>>
            /\ UNCHANGED notEsc

NextEsc == Escape \/ Unescape

SpecEsc == InitEsc /\ [][NextEsc]_vars

\* a backslash immediately followed by the letter n
HasBackslashN(t) == \E i \in 1..(Len(t) - 1) : t[i] = BSL /\ t[i + 1] = "n"

\* C4 (as stated): escaping and then undoing the four replacements in the
\* opposite order returns the original text, for every text.
EscapeRoundTrip == epc = "unescaped" => unescaped = text

\* C4 (amended): the round trip returns the original text whenever the text
\* has no backslash immediately followed by the letter n.
EscapeRoundTripNoBackslashN ==
    (epc = "unescaped" /\ ~HasBackslashN(text)) => unescaped = text

\* a text with all four special characters went through the round trip
EscapeRoundTripWitness ==
    /\ epc = "unescaped"
    /\ ~HasBackslashN(text)
    /\ \E i \in 1..Len(text) : text[i] = BSL
    /\ \E i \in 1..Len(text) : text[i] \in {SEMI, COMMA, NL}
    /\ unescaped = text
    /\ escaped # text

----------------------------------------------------------------------------
(* _week_starts *)

WeekDates == BaseDate..(BaseDate + MaxWeekDay)

\* start - timedelta(days=start.weekday())
MondayOf(start) == start - Weekday(start)

InitWeek == /\ wpc = "start"
            /\ wstart \in WeekDates
            /\ wend \in WeekDates
            /\ current = 0
            /\ yielded = <<>>
            /\ EscIdle /\ ParseIdle /\ UidIdle /\ GenIdle

WeekStartsBegin == /\ wpc = "start"
                   /\ current' = MondayOf(wstart)
                   /\ wpc' = "loop"
                   /\ UNCHANGED <<wstart, wend, yielded>>
                   /\ UNCHANGED notWeek

WeekStartsYield == /\ wpc = "loop"
                   /\ current <= wend
                   /\ yielded' = Append(yielded, current)
                   /\ current' = current + 7
                   /\ UNCHANGED <<wpc, wstart, wend>>
                   /\ UNCHANGED notWeek

WeekStartsReturn == /\ wpc = "loop"
                    /\ ~(current <= wend)
                    /\ wpc' = "done"
                    /\ UNCHANGED <<wstart, wend, current, yielded>>
                    /\ UNCHANGED notWeek

NextWeek == WeekStartsBegin \/ WeekStartsYield \/ WeekStartsReturn

SpecWeek == InitWeek /\ [][NextWeek]_vars

StrictlyAscending(s) == \A i \in 1..(Len(s) - 1) : s[i] < s[i + 1]

Range(s) == {s[i] : i \in 1..Len(s)}

\* the Mondays whose week [M, M+6] has a date in [start, end]
OverlappingMondays(start, end) ==
    {M \in (BaseDate - 7)..(BaseDate + MaxWeekDay + 7) :
        /\ Weekday(M) = 0
        /\ \E d \in M..(M + 6) : start <= d /\ d <= end}

\* C5: _week_starts yields, ascending and each once, exactly the Mondays
\* whose week overlaps [start_date, end_date]; an empty range yields none.
WeekStartsExact ==
    wpc = "done" =>
        /\ StrictlyAscending(yielded)
        /\ Range(yielded) = OverlappingMondays(wstart, wend)

\* the same for the ranges that are not empty
WeekStartsExactNonEmpty ==
    (wpc = "done" /\ wstart <= wend) =>
        /\ StrictlyAscending(yielded)
        /\ Range(yielded) = OverlappingMondays(wstart, wend)

----------------------------------------------------------------------------
(* parse_menu_day on its own *)

ParseItems ==
    { Item(TRUE, TRUE, NameX, CatEntree),      \* a station header
      Item(FALSE, FALSE, <<>>, CatEntree),     \* no food object
      Item(FALSE, TRUE, <<>>, CatSide),        \* a food without a name
      Item(FALSE, TRUE, NameX, CatEntreeCap),
      Item(FALSE, TRUE, NameX, <<>>),
      Item(FALSE, TRUE, NameY, CatMainUpper),
      Item(FALSE, TRUE, NameY, CatSide) }

\* a date, a month that does not exist, no date at all
ParseDateTexts == {IsoFormat(BaseDate + 2), <<"2", "0", "2", "4", "-", "1", "3", "-", "0", "1">>, <<"b", "a", "d">>}

ParseDays ==
    {RawDay(TRUE, t, TRUE, items) : t \in ParseDateTexts, items \in SeqsUpTo(ParseItems, MaxItems)}
    \cup {RawDay(TRUE, t, FALSE, <<>>) : t \in ParseDateTexts}
    \cup {RawDay(FALSE, <<>>, hi, items) : hi \in BOOLEAN, items \in SeqsUpTo(ParseItems, 1)}

InitParse == /\ ppc = "start"
             /\ day \in ParseDays
             /\ result = NoResult
             /\ EscIdle /\ WeekIdle /\ UidIdle /\ GenIdle

ParseMenuDay == /\ ppc = "start"
                /\ result' = parse_menu_day(day)
                /\ ppc' = "done"
                /\ UNCHANGED day
                /\ UNCHANGED notParse

NextParse == ParseMenuDay

SpecParse == InitParse /\ [][NextParse]_vars

NoDuplicates(s) == \A i, j \in 1..Len(s) : s[i] = s[j] => i = j

\* the positions in menu_items of the retained items, and of those that are entrees
RetainedAt(d) == {k \in 1..Len(MenuItemsOf(d)) : Retained(MenuItemsOf(d)[k])}

EntreeAt(d) ==
    {k \in RetainedAt(d) :
        \/ Lower(MenuItemsOf(d)[k].category) = CatEntree
        \/ Lower(MenuItemsOf(d)[k].category) = Lower(CatMainUpper)}

\* the least position among at that carries the name
FirstAt(d, at, name) ==
    CHOOSE k \in at :
        /\ MenuItemsOf(d)[k].name = name
        /\ \A j \in at : MenuItemsOf(d)[j].name = name => k <= j

\* out holds the names at the positions at, each once, by first occurrence
DistinctInFirstOrder(d, at, out) ==
    /\ NoDuplicates(out)
    /\ Range(out) = {MenuItemsOf(d)[k].name : k \in at}
    /\ \A i, j \in 1..Len(out) :
          i < j => FirstAt(d, at, out[i]) < FirstAt(d, at, out[j])

\* C6: a day with no retained item gives None whatever its date field
\* holds, and every MenuDay has a non-empty foods list.
ParseAbsentWithoutFoods ==
    ppc = "done" =>
        /\ RetainedAt(day) = {} => result.kind = "None"
        /\ result.kind = "MenuDay" => result.foods # <<>>

\* a day of skipped items only, with a malformed date, gave None
ParseAbsentWitness ==
    /\ ppc = "done"
    /\ Len(MenuItemsOf(day)) >= 2
    /\ RetainedAt(day) = {}
    /\ FromIsoFormat(day.date) = BadDate
    /\ result.kind = "None"

\* C7: foods holds each distinct retained name once, by first occurrence
\* in menu_items; entrees the same over the retained entree/main items.
ParseDedupesInFirstOrder ==
    (ppc = "done" /\ result.kind = "MenuDay") =>
        /\ DistinctInFirstOrder(day, RetainedAt(day), result.foods)
        /\ DistinctInFirstOrder(day, EntreeAt(day), result.entrees)

\* a day with a repeated food name and a repeated entree was parsed
ParseDedupesWitness ==
    /\ ppc = "done"
    /\ result.kind = "MenuDay"
    /\ Len(result.foods) = 2
    /\ Len(result.entrees) = 1
    /\ Cardinality(RetainedAt(day)) = 3
    /\ Cardinality(EntreeAt(day)) = 2

IndexIn(s, x) == CHOOSE i \in 1..Len(s) : s[i] = x

\* C8: every name of entrees is in foods, and any two names of entrees are
\* in the same relative order in foods.
EntreesOrderedSubsetOfFoods ==
    (ppc = "done" /\ result.kind = "MenuDay") =>
        /\ Range(result.entrees) \subseteq Range(result.foods)
        /\ \A i, j \in 1..Len(result.entrees) :
              i < j => IndexIn(result.foods, result.entrees[i])
                         < IndexIn(result.foods, result.entrees[j])

\* the subset half of C8 alone
EntreesSubsetOfFoods ==
    (ppc = "done" /\ result.kind = "MenuDay") =>
        Range(result.entrees) \subseteq Range(result.foods)

\* parse_menu_day on its own: a day with a retained item and a malformed
\* date makes it raise.
ParseRaisesOnBadDate ==
    (ppc = "done" /\ RetainedAt(day) # {} /\ day.has_date /\ FromIsoFormat(day.date) = BadDate)
        => result.kind = "ValueError"

----------------------------------------------------------------------------
(* The event identifier on its own *)

UidDates == BaseDate..(BaseDate + MaxUidDay)

UidNames == {<<"a">>, <<"@">>, <<"b", ",">>}

\* the names, and the texts that carry "-<ISO date>@" between two names
UidTexts ==
    UidNames \cup {x \o <<"-">> \o IsoFormat(d) \o <<"@">> \o y :
                       x \in UidNames, y \in UidNames, d \in UidDates}

UidInputs == UidTexts \X UidDates \X UidTexts

\* every input with its identifier
UidGraph == {<<t, EventUid(t[1], t[2], t[3])>> : t \in UidInputs}

InitUid == /\ upc = "start"
           /\ uslug \in UidTexts
           /\ udate \in UidDates
           /\ udistrict \in UidTexts
           /\ uid = <<>>
           /\ EscIdle /\ WeekIdle /\ ParseIdle /\ GenIdle

BuildUid == /\ upc = "start"
            /\ uid' = EventUid(uslug, udate, udistrict)
            /\ upc' = "done"
            /\ UNCHANGED <<uslug, udate, udistrict>>
            /\ UNCHANGED notUid

NextUid == BuildUid

SpecUid == InitUid /\ [][NextUid]_vars

HasAt(t) == \E i \in 1..Len(t) : t[i] = "@"

\* C3 (as stated): no other (slug, date, district) has the identifier of
\* this one, for all non-empty slugs and districts.
UidOneToOne ==
    upc = "done" =>
        \A p \in UidGraph : p[2] = uid => p[1] = <<uslug, udate, udistrict>>

\* C3 (amended): no other triple has the identifier of this one among the
\* triples whose slugs contain no "@", nor among those whose districts
\* contain no "@".
UidOneToOneWithoutAt ==
    upc = "done" =>
        \A p \in UidGraph :
            (/\ p[2] = uid
             /\ \/ ~HasAt(uslug) /\ ~HasAt(p[1][1])
                \/ ~HasAt(udistrict) /\ ~HasAt(p[1][3]))
            => p[1] = <<uslug, udate, udistrict>>

\* an identifier was built from a slug without "@" and a district that
\* carries "-<ISO date>@", and it is the text the source formats
UidWitness ==
    /\ upc = "done"
    /\ ~HasAt(uslug)
    /\ Len(udistrict) > 12
    /\ uid # uslug \o <<"-">> \o IsoFormat(udate) \o <<"@">> \o udistrict
    /\ Len(uid) = Len(uslug) + Len(udistrict) + 13

----------------------------------------------------------------------------
(* generate_calendars: the run *)

District == <<"a", "2">>

GenDates == BaseDate..(BaseDate + MaxDay)

\* the directory endpoint's entries: with a name, without one, without a slug
DirEntries ==
    { [slug |-> <<"s">>, name |-> <<"S", ",">>],
      [slug |-> <<"t">>, name |-> <<>>],
      [slug |-> <<>>, name |-> <<"N">>] }

\* the directory endpoint's answers: no slug is listed twice
Directories ==
    {data \in SeqsUpTo(DirEntries, MaxSchools) :
        \A i, j \in 1..Len(data) :
            (data[i].slug = data[j].slug /\ data[i].slug # <<>>) => i = j}

\* payload.get("days", [])
Payloads == SeqsUpTo(GenDays, MaxDays)

SchoolsRequest == [kind |-> "schools", slug |-> <<>>, week |-> 0]

WeekRequest(slug, week) == [kind |-> "week", slug |-> slug, week |-> week]

Max(S) == CHOOSE x \in S : \A y \in S : y <= x

RECURSIVE ParseAll(_)
\* what parse_menu_day makes of each day of a payload
ParseAll(days) ==
    IF days = <<>> THEN <<>> ELSE <<Parsed(Head(days))>> \o ParseAll(Tail(days))

\* the positions of the results that are a MenuDay of date d
ParsedAt(rs, d) == {i \in 1..Len(rs) : rs[i].kind = "MenuDay" /\ rs[i].date = d}

ParsedDates(rs) == {rs[i].date : i \in {k \in 1..Len(rs) : rs[k].kind = "MenuDay"}}

\* history: the last raw day that parsed to each date
LastAfter(l, days, rs) ==
    [d \in DOMAIN l \cup ParsedDates(rs) |->
        IF ParsedAt(rs, d) # {} THEN days[Max(ParsedAt(rs, d))] ELSE l[d]]

\* history: the dates that parsed again, from a day unlike the one before
RewrittenAfter(rw, l, days, rs) ==
    rw \cup {d \in ParsedDates(rs) :
                \/ d \in DOMAIN l /\ l[d] # days[Max(ParsedAt(rs, d))]
                \/ \E i \in ParsedAt(rs, d) : days[i] # days[Max(ParsedAt(rs, d))]}

HasBadDay(days) ==
    \E i \in 1..Len(days) :
        /\ \E k \in 1..Len(MenuItemsOf(days[i])) : Retained(MenuItemsOf(days[i])[k])
        /\ FromIsoFormat(days[i].date) = BadDate

Init == /\ pc = "fetch_schools"
        /\ start_date \in GenDates
        /\ end_date \in GenDates
        /\ schools = <<>>
        /\ si = 1
        /\ week_start = 0
        /\ menus = <<>>
        /\ files = <<>>
        /\ requests = <<>>
        /\ err = NoError
        /\ last = <<>>
        /\ bad_day = FALSE
        /\ rewritten = {}
        /\ EscIdle /\ WeekIdle /\ ParseIdle /\ UidIdle

\* fetch_schools answers
FetchSchools ==
    /\ pc = "fetch_schools"
    /\ \E data \in Directories : schools' = KeepSchools(data)
    /\ requests' = Append(requests, SchoolsRequest)
    /\ pc' = "school"
    /\ UNCHANGED <<start_date, end_date, si, week_start, menus, files, err, last,
                   bad_day, rewritten>>
    /\ UNCHANGED notGen

\* fetch_schools raises
FetchSchoolsFails ==
    /\ pc = "fetch_schools"
    /\ requests' = Append(requests, SchoolsRequest)
    /\ err' = [kind |-> "FetchError", slug |-> <<>>, week |-> 0]
    /\ pc' = "failed"
    /\ UNCHANGED <<start_date, end_date, schools, si, week_start, menus, files, last,
                   bad_day, rewritten>>
    /\ UNCHANGED notGen

\* the head of the loop over schools: a new menus mapping and a new generator
NextSchool ==
    /\ pc = "school"
    /\ si <= Len(schools)
    /\ menus' = <<>>
    /\ week_start' = MondayOf(start_date)
    /\ last' = <<>>
    /\ rewritten' = {}
    /\ pc' = "week"
    /\ UNCHANGED <<start_date, end_date, schools, si, files, requests, err, bad_day>>
    /\ UNCHANGED notGen

\* a failed week request that only skips the school
FetchWeekMenuFailsSkipsSchool ==
    /\ pc = "week"
    /\ week_start <= end_date
    /\ requests' = Append(requests, WeekRequest(schools[si].slug, week_start))
    /\ err' = [kind |-> "FetchError", slug |-> schools[si].slug, week |-> week_start]
    /\ si' = si + 1
    /\ pc' = "school"
    /\ UNCHANGED <<start_date, end_date, schools, week_start, menus, files, last,
                   bad_day, rewritten>>
    /\ UNCHANGED notGen

\* fetch_week_menu raises
FetchWeekMenuFails ==
    /\ pc = "week"
    /\ week_start <= end_date
    /\ requests' = Append(requests, WeekRequest(schools[si].slug, week_start))
    /\ err' = [kind |-> "FetchError", slug |-> schools[si].slug, week |-> week_start]
    /\ pc' = "failed"
    /\ UNCHANGED <<start_date, end_date, schools, si, week_start, menus, files, last,
                   bad_day, rewritten>>
    /\ UNCHANGED notGen

\* fetch_week_menu answers and the days of the payload are processed
FetchWeekMenu ==
    /\ pc = "week"
    /\ week_start <= end_date
    /\ \E payload \in Payloads :
          LET out == ProcessDays(payload, menus, start_date, end_date)
              rs == ParseAll(payload)
          IN  /\ menus' = out.menus
              /\ last' = LastAfter(last, payload, rs)
              /\ rewritten' = RewrittenAfter(rewritten, last, payload, rs)
              /\ bad_day' = (bad_day \/ HasBadDay(payload))
              /\ IF out.exc = "none"
                 THEN /\ week_start' = week_start + 7
                      /\ UNCHANGED <<pc, err>>
                 ELSE /\ pc' = "failed"
                      /\ err' = [kind |-> out.exc, slug |-> schools[si].slug,
                                  week |-> week_start]
                      /\ UNCHANGED week_start
    /\ requests' = Append(requests, WeekRequest(schools[si].slug, week_start))
    /\ UNCHANGED <<start_date, end_date, schools, si, files>>
    /\ UNCHANGED notGen

\* the generator is exhausted: build_calendar and write_calendar
WriteCalendar ==
    /\ pc = "week"
    /\ ~(week_start <= end_date)
    /\ files' = Assign(files, schools[si].slug,
                       build_calendar(schools[si].slug, MenuDays(menus), District))
    /\ si' = si + 1
    /\ pc' = "school"
    /\ UNCHANGED <<start_date, end_date, schools, week_start, menus, requests, err,
                   last, bad_day, rewritten>>
    /\ UNCHANGED notGen

\* return schools
Return ==
    /\ pc = "school"
    /\ ~(si <= Len(schools))
    /\ pc' = "done"
    /\ UNCHANGED <<start_date, end_date, schools, si, week_start, menus, files,
                   requests, err, last, bad_day, rewritten>>
    /\ UNCHANGED notGen

Next ==
    \/ FetchSchools
    \/ FetchSchoolsFails
    \/ NextSchool
    \/ FetchWeekMenu
    \/ FetchWeekMenuFails
    \/ WriteCalendar
    \/ Return

Spec == Init /\ [][Next]_vars

----------------------------------------------------------------------------
(* generate_calendars: the claims *)

\* the date of an event, read back from its DTSTART
EventDate(e) ==
    FromIsoFormat(SubSeq(e.dtstart, 1, 4) \o <<"-">> \o SubSeq(e.dtstart, 5, 6)
                  \o <<"-">> \o SubSeq(e.dtstart, 7, 8))

EventDates(doc) == [i \in 1..Len(doc) |-> EventDate(doc[i])]

\* the slugs of the schools before position i
SlugsBefore(i) == {schools[k].slug : k \in 1..(i - 1)}

\* the school whose calendar was written last
JustWritten == pc = "school" /\ si > 1

WrittenDoc == files[schools[si - 1].slug]

\* C1: the document written for a school has one event for each date of
\* [start_date, end_date] that some day of its payloads parsed to, no other
\* event, and its events in strictly ascending date order.
EventsExactlyInRange ==
    /\ JustWritten =>
          /\ StrictlyAscending(EventDates(WrittenDoc))
          /\ Range(EventDates(WrittenDoc))
               = {d \in DOMAIN last : start_date <= d /\ d <= end_date}
    /\ \A slug \in DOMAIN files :
          /\ StrictlyAscending(EventDates(files[slug]))
          /\ \A d \in Range(EventDates(files[slug])) : start_date <= d /\ d <= end_date

\* a document with two events was written for a school whose payloads also
\* held a day outside the range
EventsInRangeWitness ==
    /\ JustWritten
    /\ Len(WrittenDoc) = 2
    /\ \E d \in DOMAIN last : ~(start_date <= d /\ d <= end_date)

\* the week requests issued for a school, in order
RECURSIVE WeeksOf(_, _)
WeeksOf(reqs, slug) ==
    IF reqs = <<>> THEN <<>>
    ELSE (IF Head(reqs).kind = "week" /\ Head(reqs).slug = slug
          THEN <<Head(reqs).week>> ELSE <<>>) \o WeeksOf(Tail(reqs), slug)

\* C2: the weeks of a school are fetched in ascending order, and the
\* MenuDay kept for a date of the range, and the event built for it, is
\* that of the last day processed that parsed to the date.
LastWriteWins ==
    /\ \A k \in 1..Len(schools) : StrictlyAscending(WeeksOf(requests, schools[k].slug))
    /\ (pc = "week" \/ JustWritten) =>
          \A d \in DOMAIN last :
              (start_date <= d /\ d <= end_date) =>
                  /\ d \in DOMAIN menus
                  /\ menus[d] = MenuDayOf(parse_menu_day(last[d]))
    /\ JustWritten =>
          \A d \in DOMAIN last :
              (start_date <= d /\ d <= end_date) =>
                  \E i \in 1..Len(WrittenDoc) :
                      WrittenDoc[i] = Event(schools[si - 1].slug,
                                            MenuDayOf(parse_menu_day(last[d])), District)

\* a calendar was written in which a date parsed more than once, the last
\* time with other foods than before
LastWriteWinsWitness ==
    /\ JustWritten
    /\ \E d \in rewritten :
          /\ start_date <= d /\ d <= end_date
          /\ \E i \in 1..Len(WrittenDoc) :
                /\ EventDate(WrittenDoc[i]) = d
                /\ WrittenDoc[i].summary = LunchMenu
    /\ Len(WeeksOf(requests, schools[si - 1].slug)) = 2

\* C9: no request is issued twice; once a request has failed,
\* generate_calendars has ended with the failed request as its last one,
\* and the files are those of the schools before the failed one.
FetchFailureAborts ==
    /\ NoDuplicates(requests)
    /\ err.kind = "FetchError" =>
          /\ pc = "failed"
          /\ requests[Len(requests)] = [kind |-> IF err.slug = <<>> THEN "schools" ELSE "week",
                                         slug |-> err.slug, week |-> err.week]
          /\ err.slug = <<>> => files = <<>>
          /\ err.slug # <<>> =>
                /\ schools[si].slug = err.slug
                /\ DOMAIN files = SlugsBefore(si)
                /\ err.slug \notin DOMAIN files

\* the second week request of the second school failed
FetchFailureWitness ==
    /\ err.kind = "FetchError"
    /\ pc = "failed"
    /\ si = 2
    /\ Len(schools) = 2
    /\ Len(WeeksOf(requests, err.slug)) = 2
    /\ Cardinality(DOMAIN files) = 1

\* C10: a processed day with a retained item and a malformed date ends
\* generate_calendars with the parse error; no file is written for that
\* school or a later one.
BadDateAborts ==
    /\ bad_day =>
          /\ pc = "failed"
          /\ err.kind = "ValueError"
          /\ err.slug = schools[si].slug
          /\ DOMAIN files = SlugsBefore(si)
          /\ err.slug \notin DOMAIN files
    /\ err.kind = "ValueError" => bad_day

\* the second school had a well-formed day in range and then a day with a
\* malformed date
BadDateWitness ==
    /\ bad_day
    /\ pc = "failed"
    /\ si = 2
    /\ DOMAIN menus # {}
    /\ Cardinality(DOMAIN files) = 1

====
